---------------------------- MODULE Spec2Model ----------------------------
(***************************************************************************)
(* Model of the turing-backend cart-to-order flow: the persistent store    *)
(* (shopping_cart, orders, order_detail rows), the ShoppingCartController  *)
(* handlers that read and write it, and the TokenController gate.          *)
(*                                                                         *)
(* A handler is an async function: it runs atomically between two awaits,  *)
(* so every awaited store operation is one action, and a store operation   *)
(* that the code starts without awaiting it is a pending write that lands  *)
(* (or fails) in a later action of its own, after the handler has already  *)
(* answered.  Money is counted in cents (the store keeps DECIMAL(10,2)).   *)
(***************************************************************************)
EXTENDS Integers, Sequences, FiniteSets, TLC

VARIABLES
    products,     \* product table: product_id -> [name, price]
    cart,         \* shopping_cart rows
    orders,       \* orders rows
    details,      \* order_detail rows
    nextItemId,   \* auto-increment of shopping_cart.item_id
    nextOrderId,  \* auto-increment of orders.order_id
    nextDetailId, \* auto-increment of order_detail.item_id
    uniqueKey,    \* whether the store enforces UNIQUE(cart_id, product_id, attributes)
    faults,       \* number of store operations that have failed so far
    co,           \* createOrder requests
    add,          \* addItemToCart requests
    overlapped,   \* history: some addItemToCart started before an earlier one had answered
    now,          \* clock, in the unit of the token TTL
    issued,       \* tokens handed out by createToken: [customer_id, accessToken]
    customers,    \* customer rows: [customer_id, email, password]
    tv,           \* the request observed going through the token check
    q,            \* the order query observed, and its answer
    op            \* updateCartItem, removeItemFromCart and emptyCart requests

storeVars == <<products, cart, orders, details, nextItemId, nextOrderId, nextDetailId,
               uniqueKey, faults>>
tokenVars == <<now, issued, tv, customers>>
vars == <<storeVars, co, add, overlapped, tokenVars, q, op>>

---------------------------------------------------------------------------
(* Bounds of the model *)

MaxCheckouts == 1
MaxFaults == 1
MaxAdds == 3
MaxTime == 3
MaxTokens == 2
TokenTTL == 2
MaxOps == 2
MaxReorders == 2

---------------------------------------------------------------------------
(* Data *)

ProductIds == {1, 2, 3}
ProductTable ==
    [p \in ProductIds |->
        IF p = 1 THEN [name |-> "Arc d'Triomphe", price |-> 1000]
        ELSE IF p = 2 THEN [name |-> "Chartres Cathedral", price |-> 550]
        ELSE [name |-> "Coat of Arms", price |-> 325]]
CartIds == {"abc123", "xyz789", "one111", "empty0"}
Customers == {7, 42}
NoOrder == 0

CartRow(item_id, cart_id, product_id, attributes, quantity) ==
    [item_id |-> item_id, cart_id |-> cart_id, product_id |-> product_id,
     attributes |-> attributes, quantity |-> quantity]

---------------------------------------------------------------------------
(* ShoppingCart.findAll({ where: { cart_id }, include: Product (required) }) *)
(* with the computed column subtotal = quantity * price.                     *)

JoinProduct(row) ==
    [item_id    |-> row.item_id,
     name       |-> products[row.product_id].name,
     attributes |-> row.attributes,
     product_id |-> row.product_id,
     price      |-> products[row.product_id].price,
     quantity   |-> row.quantity,
     subtotal   |-> row.quantity * products[row.product_id].price]

FindAllCart(cart_id) ==
    {JoinProduct(row) : row \in {r \in cart : r.cart_id = cart_id /\ r.product_id \in DOMAIN products}}

(* cart.reduce((total, cartItem) => total += parseFloat(subtotal), 0) *)
RECURSIVE TotalAmount(_)
TotalAmount(lines) ==
    IF lines = {} THEN 0
    ELSE LET cartItem == CHOOSE x \in lines : TRUE
         IN cartItem.subtotal + TotalAmount(lines \ {cartItem})

(* the Order row built by createOrder *)
NewOrder(order_id, total_amount, customer_id) ==
    [order_id |-> order_id, total_amount |-> total_amount, customer_id |-> customer_id]

(* an OrderDetail row that stores the line's subtotal as its unit_cost *)
NewOrderDetailSubtotal(item_id, order_id, line) ==
    [item_id      |-> item_id,
     order_id     |-> order_id,
     product_id   |-> line.product_id,
     attributes   |-> line.attributes,
     product_name |-> line.name,
     quantity     |-> line.quantity,
     unit_cost    |-> line.subtotal]

(* an OrderDetail row that takes the cart line's item_id for its order_id *)
NewOrderDetailOfItem(item_id, order_id, line) ==
    [item_id      |-> item_id,
     order_id     |-> line.item_id,
     product_id   |-> line.product_id,
     attributes   |-> line.attributes,
     product_name |-> line.name,
     quantity     |-> line.quantity,
     unit_cost    |-> line.price]

(* the OrderDetail row built for one cart line *)
NewOrderDetail(item_id, order_id, line) ==
    [item_id      |-> item_id,
     order_id     |-> order_id,
     product_id   |-> line.product_id,
     attributes   |-> line.attributes,
     product_name |-> line.name,
     quantity     |-> line.quantity,
     unit_cost    |-> line.price]

(* if (!cart) throw new Error('Cart not found'): an array, even an empty one, is truthy *)
CartMissing(lines) == FALSE

---------------------------------------------------------------------------
(* createOrder *)

CheckoutIds == 1..MaxCheckouts
ReorderIds == 1..MaxReorders
IdleCheckout ==
    [pc |-> "idle", cart_id |-> "", customer_id |-> 0, lines |-> {}, total_amount |-> 0,
     order_id |-> NoOrder, pending |-> {}, saved |-> {}, failed |-> {}, resp |-> "none"]

(* await ShoppingCart.findAll(...) and the synchronous code up to order.save() *)
CoFindAll(i, cart_id, customer_id) ==
    /\ co[i].pc = "idle"
    /\ LET lines == FindAllCart(cart_id)
       IN IF CartMissing(lines)
          THEN co' = [co EXCEPT ![i] = [@ EXCEPT !.pc = "done", !.cart_id = cart_id,
                         !.customer_id = customer_id, !.resp = "error"]]
          ELSE co' = [co EXCEPT ![i] = [@ EXCEPT !.pc = "found", !.cart_id = cart_id,
                         !.customer_id = customer_id, !.lines = lines,
                         !.total_amount = TotalAmount(lines)]]
    /\ UNCHANGED <<storeVars, add, overlapped, tokenVars, q, op>>

(* the findAll query rejects: catch (error) { next(error) } *)
CoFindAllFails(i, cart_id, customer_id) ==
    /\ co[i].pc = "idle"
    /\ faults < MaxFaults
    /\ faults' = faults + 1
    /\ co' = [co EXCEPT ![i] = [@ EXCEPT !.pc = "done", !.cart_id = cart_id,
                 !.customer_id = customer_id, !.resp = "error"]]
    /\ UNCHANGED <<products, cart, orders, details, nextItemId, nextOrderId, nextDetailId,
                   uniqueKey, add, overlapped, tokenVars, q, op>>

(* a createOrder that deletes the rows of the cart once the order is saved *)
CoSaveOrderClearsCart(i) ==
    /\ co[i].pc = "found"
    /\ orders' = orders \cup {NewOrder(nextOrderId, co[i].total_amount, co[i].customer_id)}
    /\ nextOrderId' = nextOrderId + 1
    /\ cart' = {r \in cart : r.cart_id # co[i].cart_id}
    /\ co' = [co EXCEPT ![i] = [@ EXCEPT !.pc = "done", !.order_id = nextOrderId,
                 !.pending = co[i].lines, !.resp = "ok"]]
    /\ UNCHANGED <<products, details, nextItemId, nextDetailId, uniqueKey, faults,
                   add, overlapped, tokenVars, q, op>>

(* a createOrder that keeps one Order row per customer, replacing the earlier one *)
CoSaveOrderPerCustomer(i) ==
    /\ co[i].pc = "found"
    /\ orders' = {o \in orders : o.customer_id # co[i].customer_id}
                    \cup {NewOrder(nextOrderId, co[i].total_amount, co[i].customer_id)}
    /\ nextOrderId' = nextOrderId + 1
    /\ co' = [co EXCEPT ![i] = [@ EXCEPT !.pc = "done", !.order_id = nextOrderId,
                 !.pending = co[i].lines, !.resp = "ok"]]
    /\ UNCHANGED <<products, cart, details, nextItemId, nextDetailId, uniqueKey, faults,
                   add, overlapped, tokenVars, q, op>>

(* order = await order.save(); then cart.forEach(async ...) starts one       *)
(* orderDetail.save() per line without awaiting any of them, res.locals is   *)
(* set to { status: true, result: { order_id } } and next() answers.         *)
CoSaveOrder(i) ==
    /\ co[i].pc = "found"
    /\ orders' = orders \cup {NewOrder(nextOrderId, co[i].total_amount, co[i].customer_id)}
    /\ nextOrderId' = nextOrderId + 1
    /\ co' = [co EXCEPT ![i] = [@ EXCEPT !.pc = "done", !.order_id = nextOrderId,
                 !.pending = co[i].lines, !.resp = "ok"]]
    /\ UNCHANGED <<products, cart, details, nextItemId, nextDetailId, uniqueKey, faults,
                   add, overlapped, tokenVars, q, op>>

(* order.save() rejects: catch (error) { next(error) } *)
CoSaveOrderFails(i) ==
    /\ co[i].pc = "found"
    /\ faults < MaxFaults
    /\ faults' = faults + 1
    /\ co' = [co EXCEPT ![i] = [@ EXCEPT !.pc = "done", !.resp = "error"]]
    /\ UNCHANGED <<products, cart, orders, details, nextItemId, nextOrderId, nextDetailId,
                   uniqueKey, add, overlapped, tokenVars, q, op>>

(* an orderDetail.save() that takes unit_cost from the product table when it runs *)
CoSaveDetailCurrentPrice(i, line) ==
    /\ line \in co[i].pending
    /\ details' = details \cup
          {[NewOrderDetail(nextDetailId, co[i].order_id, line)
               EXCEPT !.unit_cost = products[line.product_id].price]}
    /\ nextDetailId' = nextDetailId + 1
    /\ co' = [co EXCEPT ![i] = [@ EXCEPT !.pending = @ \ {line}, !.saved = @ \cup {line}]]
    /\ UNCHANGED <<products, cart, orders, nextItemId, nextOrderId, uniqueKey, faults,
                   add, overlapped, tokenVars, q, op>>

(* one of the orderDetail.save() calls started by forEach completes *)
CoSaveDetail(i, line) ==
    /\ line \in co[i].pending
    /\ details' = details \cup {NewOrderDetail(nextDetailId, co[i].order_id, line)}
    /\ nextDetailId' = nextDetailId + 1
    /\ co' = [co EXCEPT ![i] = [@ EXCEPT !.pending = @ \ {line}, !.saved = @ \cup {line}]]
    /\ UNCHANGED <<products, cart, orders, nextItemId, nextOrderId, uniqueKey, faults,
                   add, overlapped, tokenVars, q, op>>

(* one of the orderDetail.save() calls rejects: the rejection is inside the  *)
(* async callback of forEach, outside the try of createOrder; nothing undoes *)
(* the rows already written.                                                 *)
CoSaveDetailFails(i, line) ==
    /\ line \in co[i].pending
    /\ faults < MaxFaults
    /\ faults' = faults + 1
    /\ co' = [co EXCEPT ![i] = [@ EXCEPT !.pending = @ \ {line}, !.failed = @ \cup {line}]]
    /\ UNCHANGED <<products, cart, orders, details, nextItemId, nextOrderId, nextDetailId,
                   uniqueKey, add, overlapped, tokenVars, q, op>>

---------------------------------------------------------------------------
(* The product table is read by the cart and checkout queries and written by *)
(* none of the handlers; its prices change from outside the application.     *)

Prices == {1000, 1200}

ChangePrice(product_id, price) ==
    /\ products[product_id].price # price
    /\ products' = [products EXCEPT ![product_id].price = price]
    /\ UNCHANGED <<cart, orders, details, nextItemId, nextOrderId, nextDetailId, uniqueKey,
                   faults, co, add, overlapped, tokenVars, q, op>>

---------------------------------------------------------------------------
(* addItemToCart *)

AddIds == 1..MaxAdds
AddCartId == "abc123"
AddAttributes == "Size,M"
AddProducts == {1, 2}
NoItem == 0
(* a product_id that no row of the product table has *)
MissingProduct == 99

IdleAdd ==
    [pc |-> "idle", product_id |-> 0, item_id |-> NoItem, quantity |-> 0, created |-> FALSE,
     saving |-> FALSE, resp |-> "none", error |-> ""]

(* rows of shopping_cart with the key (cart_id, product_id, attributes) *)
KeyedRows(cart_id, product_id, attributes) ==
    {r \in cart : r.cart_id = cart_id /\ r.product_id = product_id /\ r.attributes = attributes}

(* rows matching where: { cart_id, product_id, attributes } with the required Product join *)
FindCartRows(cart_id, product_id, attributes) ==
    {r \in cart : /\ r.cart_id = cart_id /\ r.product_id = product_id
                  /\ r.attributes = attributes /\ r.product_id \in DOMAIN products}

(* findCreateFind resolved [cartItem, false]: cartItem.set('quantity', quantity + 1), *)
(* cartItem.save() is started and not awaited, the answer is built from the instance  *)
Incremented(request, row) ==
    [request EXCEPT !.pc = "done", !.item_id = row.item_id, !.quantity = row.quantity + 1,
                    !.saving = TRUE, !.resp = "ok"]

(* first findOne of findCreateFind; the request arrives *)
AddFindOne(i, product_id) ==
    /\ add[i].pc = "idle"
    /\ overlapped' = (overlapped \/ \E j \in AddIds \ {i} : add[j].pc \notin {"idle", "done"})
    /\ LET found == FindCartRows(AddCartId, product_id, AddAttributes)
       IN IF found = {}
          THEN add' = [add EXCEPT ![i] = [@ EXCEPT !.pc = "create", !.product_id = product_id]]
          ELSE \E row \in found :
                  add' = [add EXCEPT ![i] = Incremented([@ EXCEPT !.product_id = product_id], row)]
    /\ UNCHANGED <<storeVars, co, tokenVars, q, op>>

(* create of findCreateFind: INSERT with the defaults (quantity 1); a unique key *)
(* violation sends findCreateFind to its second findOne.  The created instance   *)
(* carries no Product, so building the answer throws and next(error) answers.    *)
(* Whether shopping_cart.product_id is a foreign key is not fixed by the code:   *)
(* for a product_id without product the INSERT is refused or goes through.       *)
AddCreate(i) ==
    /\ add[i].pc = "create"
    /\ \/ /\ uniqueKey /\ KeyedRows(AddCartId, add[i].product_id, AddAttributes) # {}
          /\ add' = [add EXCEPT ![i] = [@ EXCEPT !.pc = "refind"]]
          /\ UNCHANGED <<cart, nextItemId>>
       \/ /\ ~(uniqueKey /\ KeyedRows(AddCartId, add[i].product_id, AddAttributes) # {})
          /\ add[i].product_id \notin DOMAIN products
          /\ add' = [add EXCEPT ![i] = [@ EXCEPT !.pc = "done", !.resp = "error",
                        !.error = "SequelizeForeignKeyConstraintError"]]
          /\ UNCHANGED <<cart, nextItemId>>
       \/ /\ ~(uniqueKey /\ KeyedRows(AddCartId, add[i].product_id, AddAttributes) # {})
          /\ cart' = cart \cup {CartRow(nextItemId, AddCartId, add[i].product_id,
                                        AddAttributes, 1)}
          /\ nextItemId' = nextItemId + 1
          /\ add' = [add EXCEPT ![i] = [@ EXCEPT !.pc = "done", !.item_id = nextItemId,
                        !.quantity = 1, !.created = TRUE, !.resp = "error",
                        !.error = "TypeError"]]
    /\ UNCHANGED <<products, orders, details, nextOrderId, nextDetailId, uniqueKey, faults,
                   co, overlapped, tokenVars, q, op>>

(* second findOne of findCreateFind, after the unique key violation *)
AddRefind(i) ==
    /\ add[i].pc = "refind"
    /\ LET found == FindCartRows(AddCartId, add[i].product_id, AddAttributes)
       IN IF found = {}
          THEN add' = [add EXCEPT ![i] = [@ EXCEPT !.pc = "done", !.resp = "error",
                                                   !.error = "TypeError"]]
          ELSE \E row \in found : add' = [add EXCEPT ![i] = Incremented(@, row)]
    /\ UNCHANGED <<storeVars, co, overlapped, tokenVars, q, op>>

(* the UPDATE of the un-awaited cartItem.save() reaches the store *)
AddSaveLands(i) ==
    /\ add[i].saving
    /\ cart' = {IF r.item_id = add[i].item_id THEN [r EXCEPT !.quantity = add[i].quantity]
                ELSE r : r \in cart}
    /\ add' = [add EXCEPT ![i] = [@ EXCEPT !.saving = FALSE]]
    /\ UNCHANGED <<products, orders, details, nextItemId, nextOrderId, nextDetailId,
                   uniqueKey, faults, co, overlapped, tokenVars, q, op>>

(* the un-awaited cartItem.save() rejects: nobody handles the rejection *)
AddSaveFails(i) ==
    /\ add[i].saving
    /\ faults < MaxFaults
    /\ faults' = faults + 1
    /\ add' = [add EXCEPT ![i] = [@ EXCEPT !.saving = FALSE]]
    /\ UNCHANGED <<products, cart, orders, details, nextItemId, nextOrderId, nextDetailId,
                   uniqueKey, co, overlapped, tokenVars, q, op>>

---------------------------------------------------------------------------
(* Route validation of the shopping-cart router (express-validator).  A     *)
(* request value is a string, modelled as the sequence of its characters,   *)
(* or NotSent when the request does not carry the field.                    *)

Sent(str) == [defined |-> TRUE, str |-> str]
NotSent == [defined |-> FALSE, str |-> <<>>]

Digits == {"0", "1", "2", "3", "4", "5", "6", "7", "8", "9"}
DigitValue(c) ==
    CASE c = "0" -> 0 [] c = "1" -> 1 [] c = "2" -> 2 [] c = "3" -> 3 [] c = "4" -> 4
      [] c = "5" -> 5 [] c = "6" -> 6 [] c = "7" -> 7 [] c = "8" -> 8 [] c = "9" -> 9

(* toString of the validators: undefined becomes the empty string *)
StringOf(value) == value.str

Signed(str) == str # <<>> /\ str[1] \in {"-", "+"}
Unsigned(str) == IF Signed(str) THEN Tail(str) ELSE str

(* the longest run of digits a string starts with *)
RECURSIVE LeadingDigits(_)
LeadingDigits(str) ==
    IF str = <<>> \/ str[1] \notin Digits THEN <<>>
    ELSE <<str[1]>> \o LeadingDigits(Tail(str))

RECURSIVE DigitsValue(_)
DigitsValue(digits) ==
    IF digits = <<>> THEN 0
    ELSE 10 * DigitsValue(SubSeq(digits, 1, Len(digits) - 1)) + DigitValue(digits[Len(digits)])

(* toInt(): parseInt(str, 10) of a string that holds a number *)
ToInt(str) ==
    LET n == DigitsValue(LeadingDigits(Unsigned(str)))
    IN IF str # <<>> /\ str[1] = "-" THEN 0 - n ELSE n

(* exists({ checkFalsy: true, checkNull: true }) *)
Exists(value) == value.defined /\ value.str # <<>>

(* isInt without the gt option: /^[-+]?[0-9]+$/ only *)
IsIntAnySign(value) ==
    LET str == StringOf(value)
    IN Unsigned(str) # <<>> /\ LeadingDigits(Unsigned(str)) = Unsigned(str)

(* isInt({ allow_leading_zeroes: true, gt }): /^[-+]?[0-9]+$/ and str > gt *)
IsInt(value, gt) ==
    LET str == StringOf(value)
    IN /\ Unsigned(str) # <<>>
       /\ LeadingDigits(Unsigned(str)) = Unsigned(str)
       /\ ToInt(str) > gt

(* ruleSets.cart_id_body reads param('cart_id'), not the body: the paths of  *)
(* POST /shoppingcart/add and POST /orders define no parameter, so the rule *)
(* sees undefined whatever cart_id the body carries                         *)
CartIdBodyRule(cart_id) == Exists(NotSent)

(* ruleSets.item_id: exists, isInt gt 0, toInt *)
ItemIdRule(value) == Exists(value) /\ IsInt(value, 0)

(* a quantity rule whose isInt has no gt option *)
QuantityRuleAnySign(value) == Exists(value) /\ IsIntAnySign(value)

(* ruleSets.quantity: exists, isInt gt 0, toInt *)
QuantityRule(value) == Exists(value) /\ IsInt(value, 0)

---------------------------------------------------------------------------
(* updateCartItem, removeItemFromCart, emptyCart.  Each answers after its   *)
(* query; the update(), save() and destroy() it starts are not awaited and  *)
(* reach the store, or fail unnoticed, after the response.                  *)

OpIds == 1..MaxOps

IdleOp ==
    [pc |-> "idle", kind |-> "none", sent |-> NotSent, item_id |-> NoItem, cart_id |-> "",
     quantity |-> 0, found |-> FALSE, writes |-> 0, landed |-> 0, failed |-> 0,
     resp |-> "none", error |-> ""]

(* validateFields with a non-empty error list: the controller is not run *)
Rejected(i, kind, sent) ==
    /\ op' = [op EXCEPT ![i] = [IdleOp EXCEPT !.pc = "done", !.kind = kind, !.sent = sent,
                                             !.resp = "rejected"]]
    /\ UNCHANGED <<storeVars, co, add, overlapped, tokenVars, q>>

(* ShoppingCart.findByPk(item_id, { include: Product (required) }) *)
FindCartItem(item_id) ==
    {r \in cart : r.item_id = item_id /\ r.product_id \in DOMAIN products}

(* ShoppingCart.findByPk(item_id) *)
FindByPk(item_id) == {r \in cart : r.item_id = item_id}

(* UPDATE shopping_cart SET quantity = ... with no WHERE clause *)
UpdatedAll(item_id, quantity) ==
    {[r EXCEPT !.quantity = quantity] : r \in cart}

(* UPDATE shopping_cart SET quantity = ... WHERE item_id = ... *)
Updated(item_id, quantity) ==
    {IF r.item_id = item_id THEN [r EXCEPT !.quantity = quantity] ELSE r : r \in cart}

(* DELETE of every row of the cart the item belongs to *)
DestroyedCartOf(item_id) ==
    {r \in cart : \A x \in cart : x.item_id = item_id => r.cart_id # x.cart_id}

(* instance.destroy(): DELETE FROM shopping_cart WHERE item_id = ... *)
Destroyed(item_id) == {r \in cart : r.item_id # item_id}

updateCartItem(i, item_id, quantity, sent) ==
    /\ op' = [op EXCEPT ![i] =
                IF FindCartItem(item_id) = {}
                THEN [IdleOp EXCEPT !.pc = "done", !.kind = "update", !.sent = sent,
                                    !.item_id = item_id, !.quantity = quantity,
                                    !.resp = "error", !.error = "Cart item not found"]
                ELSE [IdleOp EXCEPT !.pc = "done", !.kind = "update", !.sent = sent,
                                    !.item_id = item_id, !.quantity = quantity,
                                    !.found = TRUE, !.writes = 2, !.resp = "ok"]]
    /\ UNCHANGED <<storeVars, co, add, overlapped, tokenVars, q>>

removeItemFromCart(i, item_id, sent) ==
    /\ op' = [op EXCEPT ![i] =
                [IdleOp EXCEPT !.pc = "done", !.kind = "remove", !.sent = sent,
                               !.item_id = item_id,
                               !.found = (FindByPk(item_id) # {}),
                               !.writes = IF FindByPk(item_id) # {} THEN 1 ELSE 0,
                               !.resp = "ok"]]
    /\ UNCHANGED <<storeVars, co, add, overlapped, tokenVars, q>>

(* findOne({ where: { cart_id } }) gives one row of the cart, whichever the *)
(* store returns first; only that instance is destroyed                     *)
emptyCart(i, cart_id) ==
    /\ LET rows == {r \in cart : r.cart_id = cart_id}
       IN IF rows = {}
          THEN op' = [op EXCEPT ![i] =
                        [IdleOp EXCEPT !.pc = "done", !.kind = "empty", !.cart_id = cart_id,
                                       !.resp = "ok"]]
          ELSE \E row \in rows :
                  op' = [op EXCEPT ![i] =
                           [IdleOp EXCEPT !.pc = "done", !.kind = "empty",
                                          !.cart_id = cart_id, !.item_id = row.item_id,
                                          !.found = TRUE, !.writes = 1, !.resp = "ok"]]
    /\ UNCHANGED <<storeVars, co, add, overlapped, tokenVars, q>>

(* PUT /shoppingcart/update/:item_id: [item_id, quantity], validateFields, updateCartItem *)
PutUpdate(i, item_id, quantity) ==
    /\ op[i].pc = "idle"
    /\ IF ItemIdRule(item_id) /\ QuantityRule(quantity)
       THEN updateCartItem(i, ToInt(StringOf(item_id)), ToInt(StringOf(quantity)), quantity)
       ELSE Rejected(i, "update", quantity)

(* DELETE /shoppingcart/removeProduct/:item_id: [item_id], validateFields, removeItemFromCart *)
DeleteRemoveProduct(i, item_id) ==
    /\ op[i].pc = "idle"
    /\ IF ItemIdRule(item_id)
       THEN removeItemFromCart(i, ToInt(StringOf(item_id)), item_id)
       ELSE Rejected(i, "remove", item_id)

(* DELETE /shoppingcart/empty/:cart_id: [cart_id_param], validateFields, emptyCart; *)
(* a path segment is never empty                                                   *)
DeleteEmpty(i, cart_id) ==
    /\ op[i].pc = "idle"
    /\ emptyCart(i, cart_id)

(* POST /shoppingcart/add: [cart_id_body, product_id, attributes], validateFields: *)
(* the error list is never empty, addItemToCart is not reached                   *)
PostAdd(i, cart_id) ==
    /\ op[i].pc = "idle"
    /\ ~CartIdBodyRule(cart_id)
    /\ Rejected(i, "add", cart_id)

(* POST /orders: [auth, auth2, cart_id_body, shipping_id, tax_id], validateFields: *)
(* the error list is never empty, validateToken and createOrder are not reached   *)
PostOrders(i, cart_id) ==
    /\ op[i].pc = "idle"
    /\ ~CartIdBodyRule(cart_id)
    /\ Rejected(i, "orders", cart_id)

(* one of the statements started by update() and save() reaches the store *)
UpdateLands(i) ==
    /\ op[i].kind = "update" /\ op[i].writes > 0
    /\ cart' = Updated(op[i].item_id, op[i].quantity)
    /\ op' = [op EXCEPT ![i] = [@ EXCEPT !.writes = @ - 1, !.landed = @ + 1]]
    /\ UNCHANGED <<products, orders, details, nextItemId, nextOrderId, nextDetailId,
                   uniqueKey, faults, co, add, overlapped, tokenVars, q>>

(* the DELETE started by destroy() reaches the store *)
DestroyLands(i) ==
    /\ op[i].kind \in {"remove", "empty"} /\ op[i].writes > 0
    /\ cart' = Destroyed(op[i].item_id)
    /\ op' = [op EXCEPT ![i] = [@ EXCEPT !.writes = @ - 1, !.landed = @ + 1]]
    /\ UNCHANGED <<products, orders, details, nextItemId, nextOrderId, nextDetailId,
                   uniqueKey, faults, co, add, overlapped, tokenVars, q>>

(* an un-awaited update(), save() or destroy() rejects: nothing observes it *)
WriteFails(i) ==
    /\ op[i].writes > 0
    /\ faults < MaxFaults
    /\ faults' = faults + 1
    /\ op' = [op EXCEPT ![i] = [@ EXCEPT !.writes = @ - 1, !.failed = @ + 1]]
    /\ UNCHANGED <<products, cart, orders, details, nextItemId, nextOrderId, nextDetailId,
                   uniqueKey, co, add, overlapped, tokenVars, q>>

---------------------------------------------------------------------------
(* TokenController.  A header value is a string, modelled as the sequence   *)
(* of its pieces: a space, a run of ordinary characters, or a JWT.          *)

Undefined == 0

Piece(kind, text, data, iat, exp, sig) ==
    [kind |-> kind, text |-> text, data |-> data, iat |-> iat, exp |-> exp, sig |-> sig]
SP == Piece("sp", " ", Undefined, 0, 0, "")
Text(s) == Piece("text", s, Undefined, 0, 0, "")

(* jwt.sign({ data }, JWT_KEY, { expiresIn }) at time t *)
JwtSign(data, t, expiresIn) == Piece("jwt", "", data, t, t + expiresIn, "valid")

Header(chars) == [present |-> TRUE, chars |-> chars]
Absent == [present |-> FALSE, chars |-> <<>>]

(* accessToken: `Bearer ${token}` *)
AccessToken(token) == Header(<<Text("Bearer"), SP, token>>)

(* String.prototype.split(' ') *)
RECURSIVE Split(_)
Split(chars) ==
    IF \A k \in 1..Len(chars) : chars[k] # SP
    THEN <<chars>>
    ELSE LET k == CHOOSE n \in 1..Len(chars) :
                      chars[n] = SP /\ \A m \in 1..(n - 1) : chars[m] # SP
         IN <<SubSeq(chars, 1, k - 1)>> \o Split(SubSeq(chars, k + 1, Len(chars)))

Thrown(err) == [threw |-> TRUE, err |-> err, defined |-> FALSE, chars |-> <<>>, data |-> Undefined]
Returned(defined, chars, data) ==
    [threw |-> FALSE, err |-> "", defined |-> defined, chars |-> chars, data |-> data]

(* tokenHeader.split(' ')[1] *)
SecondPart(header) ==
    IF ~header.present
    THEN Thrown("TypeError")
    ELSE LET parts == Split(header.chars)
         IN IF Len(parts) >= 2 THEN Returned(TRUE, parts[2], Undefined)
            ELSE Returned(FALSE, <<>>, Undefined)

(* jwt.verify that still accepts a token at the second it expires *)
JwtVerifyLate(token, t) ==
    IF ~token.defined \/ token.chars = <<>>
    THEN Thrown("JsonWebTokenError: jwt must be provided")
    ELSE IF Len(token.chars) # 1 \/ token.chars[1].kind # "jwt"
    THEN Thrown("JsonWebTokenError: jwt malformed")
    ELSE IF token.chars[1].sig # "valid"
    THEN Thrown("JsonWebTokenError: invalid signature")
    ELSE IF t > token.chars[1].exp
    THEN Thrown("TokenExpiredError: jwt expired")
    ELSE Returned(TRUE, <<>>, token.chars[1].data)

(* jwt.verify(token, JWT_KEY) at time t, without a callback: it throws *)
JwtVerify(token, t) ==
    IF ~token.defined \/ token.chars = <<>>
    THEN Thrown("JsonWebTokenError: jwt must be provided")
    ELSE IF Len(token.chars) # 1 \/ token.chars[1].kind # "jwt"
    THEN Thrown("JsonWebTokenError: jwt malformed")
    ELSE IF token.chars[1].sig # "valid"
    THEN Thrown("JsonWebTokenError: invalid signature")
    ELSE IF t >= token.chars[1].exp
    THEN Thrown("TokenExpiredError: jwt expired")
    ELSE Returned(TRUE, <<>>, token.chars[1].data)

(* catch (error) { next(error) } *)
NextError(err) == [outcome |-> "error", error |-> err, customer_id |-> Undefined]
(* res.locals.customer_id = customer_id; next() *)
NextHandler(customer_id) == [outcome |-> "next", error |-> "", customer_id |-> customer_id]

(* validateToken with the split of the header moved out of the try block *)
ValidateTokenUnguarded(header, t) ==
    IF ~header.present
    THEN [outcome |-> "unhandled", error |-> "TypeError", customer_id |-> Undefined]
    ELSE LET payload == JwtVerify(SecondPart(header), t)
         IN IF payload.threw THEN NextError(payload.err)
            ELSE IF payload.data = Undefined THEN NextError("Error: Invalid token")
            ELSE NextHandler(payload.data)

(* TokenController.validateToken at time t *)
ValidateToken(header, t) ==
    LET token == SecondPart(header)
    IN IF token.threw THEN NextError(token.err)
       ELSE LET payload == JwtVerify(token, t)
            IN IF payload.threw THEN NextError(payload.err)
               ELSE IF payload.data = Undefined THEN NextError("Error: Invalid token")
               ELSE NextHandler(payload.data)

(* the token check inlined in the earlier CustomerController.getCustomerProfile: *)
(* scheme test, split, jwt.verify, Customer.findByPk, customer.getSafeDataValues *)
ProfileToken(header, t) ==
    IF ~header.present THEN NextError("TypeError")
    ELSE IF ~(Len(header.chars) >= 3 /\ header.chars[1] = Text("Bearer") /\ header.chars[2] = SP)
    THEN NextError("Error: Invalid token scheme")
    ELSE LET payload == JwtVerify(SecondPart(header), t)
         IN IF payload.threw THEN NextError(payload.err)
            ELSE IF payload.data \notin Customers THEN NextError("TypeError")
            ELSE NextHandler(payload.data)

(* value.match(/^Bearer .+/) *)
MatchesBearer(header) ==
    /\ header.present
    /\ Len(header.chars) >= 3
    /\ header.chars[1] = Text("Bearer")
    /\ header.chars[2] = SP

(* TokenController.createToken for the customer_id left in res.locals *)
CreateToken(customer_id) ==
    /\ Cardinality(issued) < MaxTokens
    /\ issued' = issued \cup
          {[customer_id |-> customer_id,
            accessToken |-> AccessToken(JwtSign(customer_id, now, TokenTTL))]}
    /\ UNCHANGED <<storeVars, co, add, overlapped, now, tv, customers, q, op>>

Tick ==
    /\ now < MaxTime
    /\ now' = now + 1
    /\ UNCHANGED <<storeVars, co, add, overlapped, issued, tv, customers, q, op>>

(* Customer accounts: create and login, each followed by createToken *)
Emails == {"ann@x.io", "bob@x.io", "eve@x.io"}
Passwords == {"pw1", "pw2"}
CustomerRow(customer_id, email, password) ==
    [customer_id |-> customer_id, email |-> email, password |-> password]
SeedCustomers == {CustomerRow(7, "ann@x.io", "pw1"), CustomerRow(42, "bob@x.io", "pw2")}

(* auto-increment of customer.customer_id *)
NextCustomerId ==
    1 + CHOOSE n \in {c.customer_id : c \in customers} :
            \A c \in customers : c.customer_id <= n

(* Customer.findOne({ where: { email } }) *)
FindCustomer(email) == {c \in customers : c.email = email}

(* customer.validatePassword(password) *)
ValidatePassword(customer, password) == customer.password = password

(* the response of POST /customers and POST /customers/login *)
AuthAnswer(route, email, password, status, customer_id, accessToken) ==
    [route |-> route, email |-> email, password |-> password, status |-> status,
     customer_id |-> customer_id, accessToken |-> accessToken]

(* next(error): createToken is skipped and the error handler answers 500 *)
AuthFails(route, email, password) ==
    /\ q' = AuthAnswer(route, email, password, 500, Undefined, Absent)
    /\ UNCHANGED <<customers, issued>>

(* next(): createToken signs res.locals.customer_id and the response        *)
(* middleware sends { customer, accessToken, expires_in }                   *)
AuthIssues(route, email, password, customer_id) ==
    LET accessToken == AccessToken(JwtSign(customer_id, now, TokenTTL))
    IN /\ issued' = issued \cup {[customer_id |-> customer_id, accessToken |-> accessToken]}
       /\ q' = AuthAnswer(route, email, password, 200, customer_id, accessToken)

(* a login that does not look at the password *)
PostLoginAnyPassword(email, password) ==
    /\ q.route \in {"none", "create", "login"}
    /\ Cardinality(issued) < MaxTokens
    /\ IF FindCustomer(email) = {}
       THEN AuthFails("login", email, password)
       ELSE /\ \E customer \in FindCustomer(email) :
                  AuthIssues("login", email, password, customer.customer_id)
            /\ UNCHANGED customers
    /\ UNCHANGED <<storeVars, co, add, overlapped, now, tv, op>>

(* POST /customers: CustomerController.create, TokenController.createToken *)
PostCustomers(email, password) ==
    /\ q.route \in {"none", "create", "login"}
    /\ Cardinality(issued) < MaxTokens
    /\ IF FindCustomer(email) # {}
       THEN AuthFails("create", email, password)
       ELSE /\ customers' = customers \cup {CustomerRow(NextCustomerId, email, password)}
            /\ AuthIssues("create", email, password, NextCustomerId)
    /\ UNCHANGED <<storeVars, co, add, overlapped, now, tv, op>>

(* POST /customers/login: CustomerController.login, TokenController.createToken *)
PostLogin(email, password) ==
    /\ q.route \in {"none", "create", "login"}
    /\ Cardinality(issued) < MaxTokens
    /\ IF FindCustomer(email) = {}
       THEN AuthFails("login", email, password)
       ELSE \E customer \in FindCustomer(email) :
               IF ~ValidatePassword(customer, password)
               THEN AuthFails("login", email, password)
               ELSE /\ AuthIssues("login", email, password, customer.customer_id)
                    /\ UNCHANGED customers
    /\ UNCHANGED <<storeVars, co, add, overlapped, now, tv, op>>

(* what a client can put in the user-key header *)
Forged(token) ==
    {[token EXCEPT !.data = c, !.sig = "forged"] : c \in Customers}
        \cup {[token EXCEPT !.exp = MaxTime + 1, !.sig = "forged"]}
HeadersWith(token) ==
    {AccessToken(token), Header(<<Text("Basic"), SP, token>>), Header(<<token>>),
     Header(<<Text("Bearer"), SP, SP, token>>)}
        \cup {AccessToken(f) : f \in Forged(token)}
RequestHeaders ==
    {Absent, Header(<<>>), Header(<<Text("garbage")>>), Header(<<Text("Bearer")>>),
     Header(<<Text("Bearer"), SP>>), Header(<<Text("Bearer"), SP, Text("garbage")>>)}
        \cup UNION {HeadersWith(i.accessToken.chars[3]) : i \in issued}

(* POST /stripe/charge: validateToken, then processStripePayment, whose try  *)
(* block is empty: it neither sends a response nor calls next.  After         *)
(* next(error) the error handler sends the one response.                      *)
StripeCharge(header) ==
    /\ tv.route = "none"
    /\ LET v == ValidateToken(header, now)
       IN tv' = [route |-> "stripe", header |-> header, at |-> now, outcome |-> v.outcome,
                 error |-> v.error, customer_id |-> v.customer_id,
                 ran |-> (v.outcome = "next"),
                 responses |-> IF v.outcome = "next" THEN 0 ELSE 1]
    /\ UNCHANGED <<storeVars, co, add, overlapped, now, issued, customers, q, op>>

---------------------------------------------------------------------------
(* Order queries.  A query reads the store and changes nothing, so a behaviour *)
(* observes one query, taken in any state with any input.                     *)

(* header('user-key').exists({ checkFalsy: true, checkNull: true }) *)
AuthExists(header) == header.present /\ header.chars # <<>>

(* the first failing rule of [auth, auth2], as validateFields reports it *)
AuthRules(header) ==
    IF ~AuthExists(header) THEN "AUT_01"
    ELSE IF ~MatchesBearer(header) THEN "AUT_02"
    ELSE "ok"

(* Order.findAll without its where clause *)
FindOrdersOfAll(customer_id) == orders

(* Order.findAll({ where: { customer_id } }) *)
FindOrders(customer_id) == {o \in orders : o.customer_id = customer_id}

(* OrderDetail.findAll({ where: { order_id } }) with the Order join left unfiltered *)
FindOrderSummaryAnyOwner(order_id, customer_id) ==
    {[order_id |-> d.order_id, product_id |-> d.product_id, attributes |-> d.attributes,
      product_name |-> d.product_name, quantity |-> d.quantity, unit_cost |-> d.unit_cost,
      subtotal |-> d.quantity * d.unit_cost] :
        d \in {x \in details :
                  /\ x.order_id = order_id
                  /\ \E o \in orders : o.order_id = x.order_id}}

(* OrderDetail.findAll({ where: { order_id }, include: Order required where *)
(* { customer_id } }) without item_id and with subtotal = quantity * unit_cost *)
FindOrderSummary(order_id, customer_id) ==
    {[order_id |-> d.order_id, product_id |-> d.product_id, attributes |-> d.attributes,
      product_name |-> d.product_name, quantity |-> d.quantity, unit_cost |-> d.unit_cost,
      subtotal |-> d.quantity * d.unit_cost] :
        d \in {x \in details :
                  /\ x.order_id = order_id
                  /\ \E o \in orders : o.order_id = x.order_id /\ o.customer_id = customer_id}}

Answer(route, header, order_id, status, body) ==
    [route |-> route, header |-> header, order_id |-> order_id, status |-> status,
     body |-> body, at |-> nextOrderId]

(* GET /orders/inCustomer: [auth, auth2], validateFields, validateToken, *)
(* getCustomerOrders, response middleware                                 *)
OrdersInCustomer(header) ==
    /\ q.route = "none"
    /\ LET rule == AuthRules(header)
           v == ValidateToken(header, now)
       IN q' = IF rule # "ok" THEN Answer("inCustomer", header, NoOrder, 401, {})
               ELSE IF v.outcome # "next" THEN Answer("inCustomer", header, NoOrder, 500, {})
               ELSE Answer("inCustomer", header, NoOrder, 200, FindOrders(v.customer_id))
    /\ UNCHANGED <<storeVars, co, add, overlapped, tokenVars, op>>

(* GET /orders/:order_id(\d+): validateToken, [auth, auth2, order_id], *)
(* validateFields, getOrderSummary, response middleware                 *)
OrderSummary(header, order_id) ==
    /\ q.route = "none"
    /\ LET v == ValidateToken(header, now)
           rule == AuthRules(header)
       IN q' = IF v.outcome # "next" THEN Answer("summary", header, order_id, 500, {})
               ELSE IF rule # "ok" THEN Answer("summary", header, order_id, 401, {})
               ELSE IF ~(order_id > 0) THEN Answer("summary", header, order_id, 400, {})
               ELSE Answer("summary", header, order_id, 200,
                           FindOrderSummary(order_id, v.customer_id))
    /\ UNCHANGED <<storeVars, co, add, overlapped, tokenVars, op>>

(* Catalogue: single product, department and category *)
DepartmentIds == {1, 2, 3}
CategoryIds == {1, 2}
SingleKinds == {"product", "department", "category"}

(* ruleSets.product_id, department_id, category_id of the product router:  *)
(* exists(), isInt({ allow_leading_zeroes: true, gt: 0 }), toInt()         *)
IdParamRule(value) == value.defined /\ IsInt(value, 0)

(* Product / Department / Category .findOne({ where: { <kind>_id } }) *)
FindOne(kind, id) ==
    IF kind = "product" THEN {id} \cap DOMAIN products
    ELSE IF kind = "department" THEN {id} \cap DepartmentIds
    ELSE {id} \cap CategoryIds

(* GET /products/:product_id, /departments/:department_id and            *)
(* /categories/:category_id: the id rule, validateFields, then the        *)
(* controller; status is row !== null, and a false status falls through   *)
(* the response middleware to the 404 handler                             *)
GetSingle(kind, value) ==
    /\ q.route = "none"
    /\ q' = IF ~IdParamRule(value)
            THEN [route |-> "single", kind |-> kind, sent |-> value, status |-> 400,
                  body |-> {}]
            ELSE [route |-> "single", kind |-> kind, sent |-> value,
                  status |-> IF FindOne(kind, ToInt(StringOf(value))) = {} THEN 404 ELSE 200,
                  body |-> FindOne(kind, ToInt(StringOf(value)))]
    /\ UNCHANGED <<storeVars, co, add, overlapped, tokenVars, op>>

(* a getCart that answers through the 404 handler when the cart has no row *)
GetCartOrNotFound(cart_id) ==
    /\ q.route = "none"
    /\ q' = [route |-> "cart", cart_id |-> cart_id,
             status |-> IF FindAllCart(cart_id) = {} THEN 404 ELSE 200,
             body |-> FindAllCart(cart_id)]
    /\ UNCHANGED <<storeVars, co, add, overlapped, tokenVars, op>>

(* GET /shoppingcart/:cart_id: [cart_id_param], validateFields, getCart; the *)
(* path segment is never empty.  findAll gives an array, empty or not, so    *)
(* status is true and the response middleware sends it with 200.             *)
GetCart(cart_id) ==
    /\ q.route = "none"
    /\ q' = [route |-> "cart", cart_id |-> cart_id, status |-> 200,
             body |-> FindAllCart(cart_id)]
    /\ UNCHANGED <<storeVars, co, add, overlapped, tokenVars, op>>

---------------------------------------------------------------------------
(* Initial states *)

(* carts of one, two and three lines; cart "empty0" has no row *)
SeedCart ==
    {CartRow(1, "abc123", 1, "Size,M", 2), CartRow(2, "abc123", 2, "Size,L", 1),
     CartRow(3, "xyz789", 1, "Size,S", 1), CartRow(4, "xyz789", 2, "Size,M", 2),
     CartRow(5, "xyz789", 3, "Color,Red", 3), CartRow(6, "one111", 3, "Size,XL", 1)}

(* an order placed earlier by customer 42 *)
SeedOrders == {[order_id |-> 1, total_amount |-> 325, customer_id |-> 42]}
SeedDetails ==
    {[item_id |-> 1, order_id |-> 1, product_id |-> 3, attributes |-> "Size,XL",
      product_name |-> "Coat of Arms", quantity |-> 1, unit_cost |-> 325]}

NoRequest ==
    [route |-> "none", header |-> Absent, at |-> 0, outcome |-> "none", error |-> "",
     customer_id |-> Undefined, ran |-> FALSE, responses |-> 0]

InitRequests ==
    /\ co = [i \in CheckoutIds \cup ReorderIds |-> IdleCheckout]
    /\ add = [i \in AddIds |-> IdleAdd]
    /\ op = [i \in OpIds |-> IdleOp]
    /\ overlapped = FALSE
    /\ now = 0
    /\ issued = {}
    /\ tv = NoRequest
    /\ q = [route |-> "none", header |-> Absent, order_id |-> NoOrder, status |-> 0,
            body |-> {}, at |-> 0]

InitStore ==
    /\ products = ProductTable
    /\ orders = SeedOrders
    /\ details = SeedDetails
    /\ nextItemId = 7
    /\ nextOrderId = 2
    /\ nextDetailId = 2
    /\ faults = 0
    /\ customers = SeedCustomers

InitCheckout ==
    /\ InitStore
    /\ InitRequests
    /\ uniqueKey = TRUE
    /\ cart = SeedCart

NextCheckout ==
    \/ \E i \in CheckoutIds, c \in CartIds, u \in Customers : CoFindAll(i, c, u)
    \/ \E i \in CheckoutIds, c \in CartIds, u \in Customers : CoFindAllFails(i, c, u)
    \/ \E i \in CheckoutIds : CoSaveOrder(i)
    \/ \E i \in CheckoutIds : CoSaveOrderFails(i)
    \/ \E i \in CheckoutIds : \E line \in co[i].pending : CoSaveDetail(i, line)
    \/ \E i \in CheckoutIds : \E line \in co[i].pending : CoSaveDetailFails(i, line)

SpecCheckout == InitCheckout /\ [][NextCheckout]_vars

(* GET /customer as routed without middleware to the earlier getCustomerProfile *)
CustomerProfile(header) ==
    /\ tv.route = "none"
    /\ LET v == ProfileToken(header, now)
       IN tv' = [route |-> "customer", header |-> header, at |-> now, outcome |-> v.outcome,
                 error |-> v.error, customer_id |-> v.customer_id,
                 ran |-> (v.outcome = "next"), responses |-> 1]
    /\ UNCHANGED <<storeVars, co, add, overlapped, now, issued, customers, q, op>>

(* the cart table starts without the key the requests add; the schema of the *)
(* shopping_cart table may or may not declare the key unique                *)
InitCart ==
    /\ InitStore
    /\ InitRequests
    /\ uniqueKey \in BOOLEAN
    /\ cart = {r \in SeedCart : r.cart_id # AddCartId}

NextCart ==
    \/ \E i \in AddIds, p \in AddProducts : AddFindOne(i, p)
    \/ \E i \in AddIds : AddCreate(i)
    \/ \E i \in AddIds : AddRefind(i)
    \/ \E i \in AddIds : AddSaveLands(i)
    \/ \E i \in AddIds : AddSaveFails(i)

SpecCart == InitCart /\ [][NextCart]_vars

(* addItemToCart for product 1 and for a product_id without product *)
NextAddAny ==
    \/ \E i \in AddIds, p \in {1, MissingProduct} : AddFindOne(i, p)
    \/ \E i \in AddIds : AddCreate(i)
    \/ \E i \in AddIds : AddRefind(i)
    \/ \E i \in AddIds : AddSaveLands(i)
    \/ \E i \in AddIds : AddSaveFails(i)

SpecAddAny == InitCart /\ [][NextAddAny]_vars

NextToken ==
    \/ Tick
    \/ \E c \in Customers : CreateToken(c)
    \/ \E h \in RequestHeaders : StripeCharge(h)
    \/ \E h \in RequestHeaders : CustomerProfile(h)

SpecToken == InitCheckout /\ [][NextToken]_vars

NextQuery ==
    \/ \E c \in Customers : CreateToken(c)
    \/ \E i \in CheckoutIds, u \in Customers : CoFindAll(i, "abc123", u)
    \/ \E i \in CheckoutIds : CoSaveOrder(i)
    \/ \E i \in CheckoutIds : \E line \in co[i].pending : CoSaveDetail(i, line)
    \/ \E h \in RequestHeaders : OrdersInCustomer(h)
    \/ \E h \in RequestHeaders, o \in 0..(nextOrderId - 1) : OrderSummary(h, o)

SpecQuery == InitCheckout /\ [][NextQuery]_vars

(* what a client sends as :item_id and as quantity: items 1 and 2 are rows of *)
(* cart "abc123", no row has item_id 9                                       *)
ItemParams == {Sent(<<"1">>), Sent(<<"2">>), Sent(<<"9">>), Sent(<<"0">>)}
QuantityBodies ==
    {Sent(<<"3">>), Sent(<<"0", "5">>), Sent(<<"0">>), Sent(<<"-", "1">>),
     Sent(<<"1", ".", "5">>), NotSent}

NextCartOps ==
    \/ \E i \in OpIds, x \in ItemParams, y \in QuantityBodies : PutUpdate(i, x, y)
    \/ \E i \in OpIds, x \in ItemParams : DeleteRemoveProduct(i, x)
    \/ \E i \in OpIds, c \in CartIds : DeleteEmpty(i, c)
    \/ \E i \in OpIds : UpdateLands(i)
    \/ \E i \in OpIds : DestroyLands(i)
    \/ \E i \in OpIds : WriteFails(i)
    \/ \E i \in OpIds : PostAdd(i, Sent(<<"abc123">>))
    \/ \E i \in OpIds : PostOrders(i, Sent(<<"abc123">>))

SpecCartOps == InitCheckout /\ [][NextCartOps]_vars

(* checkouts of cart "abc123" while the price of product 1 changes and one   *)
(* request changes the rows of the cart                                      *)
ShopOpIds == {1}

NextShop ==
    \/ \E i \in CheckoutIds, u \in Customers : CoFindAll(i, "abc123", u)
    \/ \E i \in CheckoutIds, u \in Customers : CoFindAllFails(i, "abc123", u)
    \/ \E i \in CheckoutIds : CoSaveOrder(i)
    \/ \E i \in CheckoutIds : CoSaveOrderFails(i)
    \/ \E i \in CheckoutIds : \E line \in co[i].pending : CoSaveDetail(i, line)
    \/ \E i \in CheckoutIds : \E line \in co[i].pending : CoSaveDetailFails(i, line)
    \/ \E price \in Prices : ChangePrice(1, price)
    \/ \E i \in ShopOpIds : PutUpdate(i, Sent(<<"1">>), Sent(<<"3">>))
    \/ \E i \in ShopOpIds : DeleteRemoveProduct(i, Sent(<<"2">>))
    \/ \E i \in ShopOpIds : DeleteEmpty(i, "abc123")
    \/ \E i \in ShopOpIds : UpdateLands(i)
    \/ \E i \in ShopOpIds : DestroyLands(i)

SpecShop == InitCheckout /\ [][NextShop]_vars

(* customers register and log in while the clock advances *)
NextAuth ==
    \/ \E email \in Emails, password \in Passwords : PostCustomers(email, password)
    \/ \E email \in Emails, password \in Passwords : PostLogin(email, password)
    \/ Tick

SpecAuth == InitCheckout /\ [][NextAuth]_vars

(* reads of a cart while the price of product 1 and the rows of the carts    *)
(* change                                                                    *)
IdParams == {Sent(<<"1">>), Sent(<<"0", "2">>), Sent(<<"9">>), Sent(<<"a">>), Sent(<<"0">>)}

NextRead ==
    \/ \E c \in CartIds : GetCart(c)
    \/ \E kind \in SingleKinds, value \in IdParams : GetSingle(kind, value)
    \/ \E price \in Prices : ChangePrice(1, price)
    \/ \E i \in ShopOpIds, item \in {"1", "3"} :
          PutUpdate(i, Sent(<<item>>), Sent(<<"3">>))
    \/ \E i \in ShopOpIds : DeleteRemoveProduct(i, Sent(<<"2">>))
    \/ \E i \in ShopOpIds : DeleteEmpty(i, "one111")
    \/ \E i \in ShopOpIds : UpdateLands(i)
    \/ \E i \in ShopOpIds : DestroyLands(i)

SpecRead == InitCheckout /\ [][NextRead]_vars

(* one customer after another checks out cart "abc123", which nothing clears *)
NextReorder ==
    \/ \E i \in ReorderIds, u \in Customers : CoFindAll(i, "abc123", u)
    \/ \E i \in ReorderIds : CoSaveOrder(i)
    \/ \E i \in ReorderIds : CoSaveOrderFails(i)
    \/ \E i \in ReorderIds : \E line \in co[i].pending : CoSaveDetail(i, line)
    \/ \E i \in ShopOpIds : DeleteRemoveProduct(i, Sent(<<"2">>))
    \/ \E i \in ShopOpIds : DestroyLands(i)

SpecReorder == InitCheckout /\ [][NextReorder]_vars

---------------------------------------------------------------------------
(* Checkout *)

DetailsOf(order_id) == {d \in details : d.order_id = order_id}

RECURSIVE DetailSum(_)
DetailSum(rows) ==
    IF rows = {} THEN 0
    ELSE LET d == CHOOSE x \in rows : TRUE
         IN d.quantity * d.unit_cost + DetailSum(rows \ {d})

Ended(i) == co[i].pc = "done" /\ co[i].pending = {}

(* C1: a checkout attempt in which an OrderDetail save failed leaves, once it  *)
(* has ended, neither its Order nor any of its OrderDetail rows in the store.  *)
CheckoutAtomic ==
    \A i \in CheckoutIds :
        (Ended(i) /\ co[i].failed # {}) =>
            /\ \A o \in orders : o.order_id # co[i].order_id
            /\ DetailsOf(co[i].order_id) = {}

(* C2: once a successful checkout of a non-empty cart has finished all its     *)
(* writes, its Order exists, total_amount is the sum of quantity * unit_cost   *)
(* over the OrderDetail rows of that order, and there is one row per line.     *)
TotalEqualsDetailSum ==
    \A i \in CheckoutIds :
        (Ended(i) /\ co[i].resp = "ok" /\ co[i].failed = {} /\ co[i].lines # {}) =>
            /\ \E o \in orders :
                  /\ o.order_id = co[i].order_id
                  /\ o.total_amount = DetailSum(DetailsOf(co[i].order_id))
            /\ Cardinality(DetailsOf(co[i].order_id)) = Cardinality(co[i].lines)

(* the example of the specification: (10.00, qty 2) and (5.50, qty 1) give 25.50 in two rows *)
ExampleCheckoutDone ==
    \E i \in CheckoutIds :
        /\ Ended(i) /\ co[i].resp = "ok" /\ co[i].failed = {} /\ co[i].cart_id = "abc123"
        /\ \E o \in orders : o.order_id = co[i].order_id /\ o.total_amount = 2550
        /\ {d.unit_cost : d \in DetailsOf(co[i].order_id)} = {1000, 550}
        /\ Cardinality(DetailsOf(co[i].order_id)) = 2

(* C3: a checkout of a cart_id without cart items fails and creates no Order. *)
EmptyCartCheckoutFails ==
    \A i \in CheckoutIds :
        (co[i].pc = "done" /\ co[i].lines = {}) =>
            /\ co[i].resp = "error"
            /\ co[i].order_id = NoOrder

(* C11: a checkout in which an OrderDetail save failed answers with that      *)
(* error; it never answers success with an order_id.                          *)
FailedDetailReported ==
    \A i \in CheckoutIds :
        co[i].failed # {} => co[i].resp = "error"

(* C12: when the success response with order_id is produced, the Order and    *)
(* every OrderDetail row of the checkout are stored and no write is left to   *)
(* happen after the response.                                                 *)
RespondsAfterWrites ==
    \A i \in CheckoutIds :
        co[i].resp = "ok" =>
            /\ co[i].pending = {}
            /\ \E o \in orders : o.order_id = co[i].order_id
            /\ Cardinality(DetailsOf(co[i].order_id)) = Cardinality(co[i].lines)

(* C15: in every state, also between the steps of a checkout in progress or   *)
(* of one whose saves failed, each OrderDetail row's order_id is the order_id *)
(* of a stored Order.                                                         *)
DetailsReferenceOrders ==
    \A d \in details : \E o \in orders : o.order_id = d.order_id

(* a checkout of three lines with one row stored, one save failed, one pending *)
DetailsPartlyWritten ==
    \E i \in CheckoutIds :
        /\ co[i].saved # {} /\ co[i].failed # {} /\ co[i].pending # {}
        /\ DetailsOf(co[i].order_id) # {}

(* what an OrderDetail row and a cart line read at checkout say about a line *)
DetailLine(d) ==
    [product_id |-> d.product_id, attributes |-> d.attributes, quantity |-> d.quantity,
     product_name |-> d.product_name, unit_cost |-> d.unit_cost]
ReadLine(l) ==
    [product_id |-> l.product_id, attributes |-> l.attributes, quantity |-> l.quantity,
     product_name |-> l.name, unit_cost |-> l.price]

(* the lines a checkout reads are the rows of the cart with the product's name *)
(* and price of that moment                                                    *)
ReadsCartAndPrices ==
    \A i \in CheckoutIds :
        (co[i].pc = "idle" /\ co'[i].pc = "found") =>
            /\ {l.item_id : l \in co'[i].lines}
                  = {r.item_id : r \in {x \in cart : x.cart_id = co'[i].cart_id}}
            /\ \A l \in co'[i].lines : \E r \in cart :
                  /\ r.item_id = l.item_id
                  /\ ReadLine(l) = [product_id |-> r.product_id, attributes |-> r.attributes,
                                    quantity |-> r.quantity,
                                    product_name |-> products[r.product_id].name,
                                    unit_cost |-> products[r.product_id].price]

DetailsOfReadLines ==
    \A i \in CheckoutIds :
        (Ended(i) /\ co[i].resp = "ok" /\ co[i].failed = {}) =>
            /\ Cardinality(DetailsOf(co[i].order_id)) = Cardinality(co[i].lines)
            /\ {DetailLine(d) : d \in DetailsOf(co[i].order_id)}
                  = {ReadLine(l) : l \in co[i].lines}

(* C13: after a successful checkout has finished, the OrderDetail rows of its *)
(* order are, one for one, the cart lines read at checkout with that line's   *)
(* product_id, attributes, quantity, product name and the price of that       *)
(* moment as unit_cost; no later step, a price or cart change included,       *)
(* changes or removes an OrderDetail row.                                     *)
DetailsAreSnapshots ==
    /\ []DetailsOfReadLines
    /\ [][ReadsCartAndPrices /\ details \subseteq details']_vars

(* the price of product 1 and the quantity of its cart row changed after a    *)
(* checkout that read product 1 at 10.00, quantity 2                          *)
SnapshotOutlivesChanges ==
    \E i \in CheckoutIds :
        /\ Ended(i) /\ co[i].resp = "ok" /\ co[i].failed = {}
        /\ products[1].price = 1200
        /\ \E r \in cart : r.item_id = 1 /\ r.quantity = 3
        /\ \E d \in DetailsOf(co[i].order_id) :
              d.product_id = 1 /\ d.unit_cost = 1000 /\ d.quantity = 2
        /\ \E d \in DetailsOf(co[i].order_id) : d.product_id = 2

(* C14: every successful checkout has created exactly one Order, whose        *)
(* order_id no other order has, so that k successful checkouts of the same    *)
(* cart give k orders; no step changes or removes an Order.                   *)
OrdersOnlyAdded ==
    /\ [](/\ \A o1, o2 \in orders : o1.order_id = o2.order_id => o1 = o2
          /\ \A i \in ReorderIds :
                co[i].resp = "ok" =>
                   \E o \in orders \ SeedOrders :
                      /\ o.order_id = co[i].order_id
                      /\ \A j \in ReorderIds \ {i} : co[j].order_id # o.order_id
          /\ Cardinality(orders \ SeedOrders)
                = Cardinality({i \in ReorderIds : co[i].resp = "ok"}))
    /\ [][orders \subseteq orders']_vars

(* two checkouts of cart "abc123" by customer 7 gave two orders *)
TwoOrdersOfOneCart ==
    /\ \A i \in ReorderIds :
          co[i].resp = "ok" /\ co[i].cart_id = "abc123" /\ co[i].customer_id = 7
    /\ Cardinality({o \in orders : o.customer_id = 7}) = Cardinality(ReorderIds)
    /\ \A r \in SeedCart : r.cart_id = "abc123" => r \in cart

(* C16: no step of a checkout, successful or failed, changes the rows of any  *)
(* cart, and the success result names the order the checkout created.         *)
CheckoutKeepsCart ==
    /\ [][co' # co => cart' = cart]_vars
    /\ [](\A i \in CheckoutIds :
             co[i].resp = "ok" =>
                \E o \in orders : o.order_id = co[i].order_id
                                   /\ o.customer_id = co[i].customer_id)

(* a checkout of cart "abc123" has ended with success and the cart holds the  *)
(* rows it read                                                               *)
CartKeptAfterCheckout ==
    \E i \in CheckoutIds :
        /\ Ended(i) /\ co[i].resp = "ok" /\ co[i].lines # {}
        /\ {r.item_id : r \in {x \in cart : x.cart_id = co[i].cart_id}}
              = {l.item_id : l \in co[i].lines}
        /\ cart = SeedCart

---------------------------------------------------------------------------
(* Token gate *)

(* C8: a token issued for a customer verifies to that customer at any time     *)
(* before its expiry and is refused as expired once the TTL has elapsed.       *)
TokenRoundTrip ==
    \A i \in issued :
        (tv.route = "stripe" /\ tv.header = i.accessToken) =>
            LET token == i.accessToken.chars[3]
            IN /\ tv.at < token.exp =>
                     (tv.outcome = "next" /\ tv.customer_id = i.customer_id)
               /\ tv.at >= token.iat + TokenTTL =>
                     (tv.outcome = "error" /\ tv.error = "TokenExpiredError: jwt expired")

TokenVerifiedBeforeExpiry ==
    \E i \in issued :
        /\ tv.route = "stripe" /\ tv.header = i.accessToken
        /\ tv.at > i.accessToken.chars[3].iat
        /\ tv.at < i.accessToken.chars[3].exp
        /\ tv.outcome = "next" /\ tv.customer_id = i.customer_id

(* C9: a credential that is missing or not of the form "Bearer <token>" is     *)
(* rejected: no customer_id is established and the controller is not run.      *)
VerifyRejectsNonBearer ==
    (tv.route = "stripe" /\ ~MatchesBearer(tv.header)) =>
        (tv.outcome = "error" /\ tv.customer_id = Undefined /\ ~tv.ran)

(* C10: whatever the user-key header, token verification ends either in an     *)
(* error handed to next or in a defined customer_id handed to the next handler.*)
VerifyOutcomeHandled ==
    tv.route # "none" =>
        /\ tv.outcome \in {"error", "next"}
        /\ tv.outcome = "next" => tv.customer_id # Undefined
        /\ tv.outcome = "error" => (tv.customer_id = Undefined /\ ~tv.ran)

AbsentHeaderHandled ==
    tv.route = "stripe" /\ ~tv.header.present /\ tv.outcome = "error"

---------------------------------------------------------------------------
(* Order queries *)

(* the customer a header's token was issued to, if the header carries one *)
IssuedTo(header) == {i.customer_id : i \in {x \in issued : x.accessToken = header}}
OwnerOf(order_id) == {o.customer_id : o \in {x \in orders : x.order_id = order_id}}

(* C6: the order summary never contains a row of an order of another customer: *)
(* every row answered belongs to an order owned by the customer the token was  *)
(* issued to, and an existing order of someone else yields an empty answer.    *)
SummaryOnlyOwnOrders ==
    q.route = "summary" =>
        /\ \A row \in q.body : OwnerOf(row.order_id) # {} /\ OwnerOf(row.order_id) \subseteq IssuedTo(q.header)
        /\ (OwnerOf(q.order_id) # {} /\ OwnerOf(q.order_id) \cap IssuedTo(q.header) = {}) => q.body = {}

ForeignOrderAskedFor ==
    /\ q.route = "summary" /\ q.status = 200 /\ q.body = {}
    /\ IssuedTo(q.header) = {7}
    /\ OwnerOf(q.order_id) = {42}
    /\ DetailsOf(q.order_id) # {}

(* C7: the order list is exactly the set of orders, present when the query ran, *)
(* whose customer_id is the customer the token of the request was issued to.    *)
ListOnlyOwnOrders ==
    (q.route = "inCustomer" /\ q.status = 200) =>
        /\ IssuedTo(q.header) # {}
        /\ q.body = {o \in orders : o.order_id < q.at /\ o.customer_id \in IssuedTo(q.header)}

OwnOrdersListed ==
    /\ q.route = "inCustomer" /\ q.status = 200 /\ q.body # {}
    /\ IssuedTo(q.header) = {7}
    /\ \E o \in orders : o.customer_id = 42

---------------------------------------------------------------------------
(* Cart *)

KeyRows(product_id) == FindCartRows(AddCartId, product_id, AddAttributes)
CallsFor(product_id) == {i \in AddIds : add[i].pc = "done" /\ add[i].product_id = product_id}
AddsQuiet == \A i \in AddIds : add[i].pc \in {"idle", "done"} /\ ~add[i].saving
OneRowCountingCalls(product_id) ==
    \E r \in KeyRows(product_id) :
        KeyRows(product_id) = {r} /\ r.quantity = Cardinality(CallsFor(product_id))

(* C4: after n addItem calls on one key, each started after the previous one   *)
(* had answered, the store holds exactly one row for the key, of quantity n.   *)
SequentialAddsCount ==
    (AddsQuiet /\ ~overlapped /\ faults = 0) =>
        \A p \in AddProducts : CallsFor(p) # {} => OneRowCountingCalls(p)

(* C5: after n addItem requests on one key, however they interleave, the store *)
(* holds exactly one row for the key, of quantity n.                           *)
ConcurrentAddsCount ==
    (AddsQuiet /\ faults = 0) =>
        \A p \in AddProducts : CallsFor(p) # {} => OneRowCountingCalls(p)

---------------------------------------------------------------------------
(* Cart operations *)

Accepted(i, kind) == op[i].pc = "done" /\ op[i].kind = kind /\ op[i].resp # "rejected"
OpQuiet(i) == op[i].writes = 0 /\ op[i].failed = 0
SeedRow(item_id) == CHOOSE s \in SeedCart : s.item_id = item_id

(* the number a client means by the strings it sends *)
GivenValue(sent) ==
    CASE sent = Sent(<<"1">>) -> 1 [] sent = Sent(<<"2">>) -> 2 [] sent = Sent(<<"3">>) -> 3
      [] sent = Sent(<<"0", "5">>) -> 5 [] sent = Sent(<<"9">>) -> 9 [] OTHER -> 0

(* C17: once clear(cart_id) has completed, no CartItem row of that cart is   *)
(* left, however many rows the cart held; the call succeeds.                 *)
EmptyCartClears ==
    \A i \in OpIds :
        (Accepted(i, "empty") /\ OpQuiet(i)) =>
            /\ op[i].resp = "ok"
            /\ \A r \in cart : r.cart_id # op[i].cart_id

(* C18: removeItem succeeds whether or not the item exists; once the removes *)
(* that ran have completed, the store is the earlier store without the items *)
(* they name, the same after two removes of an item as after one, and every  *)
(* other row is as it was.                                                   *)
RemoveIdempotent ==
    /\ \A i \in OpIds : Accepted(i, "remove") => op[i].resp = "ok"
    /\ (\A i \in OpIds : op[i].pc = "idle" \/ (Accepted(i, "remove") /\ OpQuiet(i))) =>
          cart = {r \in SeedCart :
                     \A i \in OpIds : Accepted(i, "remove") => op[i].item_id # r.item_id}

(* item 1 was removed twice and the second remove found no row *)
RemovedTwice ==
    /\ \A i \in OpIds : Accepted(i, "remove") /\ OpQuiet(i) /\ op[i].sent = Sent(<<"1">>)
    /\ \E i \in OpIds : op[i].found /\ op[i].landed = 1
    /\ \E i \in OpIds : ~op[i].found /\ op[i].landed = 0
    /\ cart = SeedCart \ {SeedRow(1)}

(* C19: updateQuantity of an item_id without a row answers the not-found     *)
(* error and writes nothing; on an existing item, once its writes have       *)
(* completed, that row holds the given quantity and no other row has changed. *)
UpdateSetsThatRow ==
    /\ \A i \in OpIds :
          (Accepted(i, "update") /\ ~op[i].found) =>
             /\ op[i].resp = "error" /\ op[i].error = "Cart item not found"
             /\ op[i].writes = 0 /\ op[i].landed = 0 /\ op[i].failed = 0
             /\ \A r \in cart : r.item_id # op[i].item_id
    /\ (\A i \in OpIds : op[i].pc = "idle" \/ (Accepted(i, "update") /\ OpQuiet(i))) =>
          /\ {r.item_id : r \in cart} = {s.item_id : s \in SeedCart}
          /\ Cardinality(cart) = Cardinality(SeedCart)
          /\ \A r \in cart :
                LET given == {GivenValue(op[i].sent) :
                                 i \in {j \in OpIds : Accepted(j, "update") /\ op[j].found
                                                      /\ op[j].item_id = r.item_id}}
                IN /\ r = [SeedRow(r.item_id) EXCEPT !.quantity = r.quantity]
                   /\ IF given = {} THEN r.quantity = SeedRow(r.item_id).quantity
                      ELSE r.quantity \in given

(* item 1 was set to 5 by a request sending "05" while a request for item 9 failed *)
UpdatedAndNotFound ==
    /\ \E i \in OpIds :
          /\ Accepted(i, "update") /\ op[i].found /\ op[i].landed = 2 /\ op[i].writes = 0
          /\ op[i].item_id = 1 /\ op[i].sent = Sent(<<"0", "5">>)
    /\ \E i \in OpIds : Accepted(i, "update") /\ op[i].item_id = 9 /\ op[i].resp = "error"
    /\ [SeedRow(1) EXCEPT !.quantity = 5] \in cart
    /\ SeedCart \ {SeedRow(1)} \subseteq cart

FailedWriteReported ==
    \A i \in OpIds : op[i].failed > 0 => op[i].resp = "error"

(* C24: a POST /shoppingcart/add and a POST /orders whose body carries a      *)
(* non-empty cart_id pass route validation and reach their controller.        *)
CartIdInBodyAccepted ==
    \A i \in OpIds :
        (op[i].kind \in {"add", "orders"} /\ Exists(op[i].sent)) => op[i].resp # "rejected"

(* C29: once update, remove or clear has answered success, its write is in    *)
(* the store: a read started after the response of the only request so far    *)
(* finds the quantity sent, or no row of the removed item.                    *)
ReadYourWrites ==
    \A i \in OpIds :
        (op[i].resp = "ok" /\ op[i].found /\ \A j \in OpIds \ {i} : op[j].pc = "idle") =>
            IF op[i].kind = "update"
            THEN \E r \in cart : r.item_id = op[i].item_id /\ r.quantity = op[i].quantity
            ELSE \A r \in cart : r.item_id # op[i].item_id

(* C21: addItem with a product_id that no product has fails with a not-found  *)
(* error.                                                                     *)
MissingProductNotFound ==
    \A i \in AddIds :
        (add[i].pc = "done" /\ add[i].product_id \notin DOMAIN products) =>
            /\ add[i].resp = "error"
            /\ add[i].error \notin {"TypeError", "SequelizeForeignKeyConstraintError"}

(* C30: an add that answered an error has left the cart rows as they were.    *)
ErrorLeavesStore ==
    \A i \in AddIds :
        add[i].resp = "error" => \A r \in cart : r.item_id # add[i].item_id

---------------------------------------------------------------------------
(* Cart read *)

(* C22: getItems answers success with the rows of the cart asked for, one     *)
(* line per row with subtotal = quantity * the unit price of that moment, and *)
(* with the empty sequence, not an error, when the cart has no row.           *)
CartReadExact ==
    [][(q.route = "none" /\ q'.route = "cart") =>
          LET rows == {r \in cart : r.cart_id = q'.cart_id}
          IN /\ q'.status = 200
             /\ {l.item_id : l \in q'.body} = {r.item_id : r \in rows}
             /\ Cardinality(q'.body) = Cardinality(rows)
             /\ \A l \in q'.body : \E r \in rows :
                   /\ l.item_id = r.item_id /\ l.product_id = r.product_id
                   /\ l.attributes = r.attributes /\ l.quantity = r.quantity
                   /\ l.price = products[r.product_id].price
                   /\ l.subtotal = r.quantity * products[r.product_id].price]_vars

(* cart "abc123" read after product 1 went to 12.00 and its row to quantity 3 *)
CartReadAtCurrentPrice ==
    /\ q.route = "cart" /\ q.cart_id = "abc123" /\ q.status = 200
    /\ Cardinality(q.body) = 2
    /\ \E l \in q.body : l.product_id = 1 /\ l.quantity = 3 /\ l.subtotal = 3600

---------------------------------------------------------------------------
(* Catalogue reads *)

(* C25: a GET of a single product, department or category answers 200 with  *)
(* the row when the id exists and 404 otherwise, an id in the path that is  *)
(* not an integer included.                                                 *)
SingleFoundOrNotFound ==
    q.route = "single" =>
        \/ q.status = 200 /\ q.body # {}
        \/ q.status = 404 /\ q.body = {}

---------------------------------------------------------------------------
(* User-key rules *)

(* C26: on the routes that declare the user-key rules a request without the *)
(* header (AUT_01) or with a header that is not 'Bearer <token>' (AUT_02)   *)
(* is answered 401 by the rules, before the token is verified.              *)
UserKeyRulesAnswerFirst ==
    (q.route \in {"inCustomer", "summary"} /\ AuthRules(q.header) # "ok") => q.status = 401

---------------------------------------------------------------------------
(* Token issue *)

(* C27: a token is issued only after create stored a new customer or login  *)
(* found the email and validated the password, and it verifies to exactly   *)
(* that customer's id; a login with an unknown email or a wrong password    *)
(* and a create with a registered email end in an error without accessToken *)
(* and without a token issued.                                              *)
TokenOnlyAfterAuthentication ==
    [][(q' # q \/ issued' # issued) =>
          /\ q'.route \in {"create", "login"}
          /\ LET authenticated ==
                   IF q'.route = "create"
                   THEN /\ \A c \in customers : c.email # q'.email
                        /\ CustomerRow(q'.customer_id, q'.email, q'.password) \in customers'
                   ELSE /\ CustomerRow(q'.customer_id, q'.email, q'.password) \in customers
                        /\ customers' = customers
             IN IF q'.status = 200
                THEN /\ authenticated
                     /\ [customer_id |-> q'.customer_id, accessToken |-> q'.accessToken]
                            \in issued'
                     /\ issued' \ issued \subseteq
                            {[customer_id |-> q'.customer_id, accessToken |-> q'.accessToken]}
                     /\ ValidateToken(q'.accessToken, now).outcome = "next"
                     /\ ValidateToken(q'.accessToken, now).customer_id = q'.customer_id
                ELSE /\ ~authenticated
                     /\ q'.accessToken = Absent
                     /\ issued' = issued /\ customers' = customers]_vars

(* a customer registered in this run has logged in at a later time: two  *)
(* tokens, both of that customer                                         *)
RegisteredThenLoggedIn ==
    /\ q.route = "login" /\ q.status = 200 /\ q.customer_id = 43
    /\ Cardinality(issued) = 2
    /\ \A t \in issued : t.customer_id = 43

---------------------------------------------------------------------------
(* Responses *)

(* C28: every request that has gone through its handlers has received *)
(* exactly one response; none is left unanswered, POST /stripe/charge *)
(* included.                                                          *)
EveryRequestAnswered ==
    tv.route # "none" => tv.responses = 1

=============================================================================
